---- MODULE Spec2Model ----
(***************************************************************************)
(* Market-Briefing-Bot: the citation-enforcing report formatter            *)
(* (src/src/report_formatter.py) and the multi-source RSS collector        *)
(* (src/src/web_app.py).                                                   *)
(*                                                                         *)
(* A Python str is a sequence of one-character strings.  A character       *)
(* outside ASCII is written as its code point ("U51FA" is one character).  *)
(* A dictionary value is a record [k, s]: k = "absent" (the key is not in  *)
(* the dict), "none" (the value is None) or "str" (the value is the str s).*)
(***************************************************************************)
EXTENDS Integers, Sequences, FiniteSets, TLC

VARIABLES
    \* format_report_sections
    items, content_key, isolate_unknown_sources, idx,
    cited_lines, unknown_lines, cited_from, unknown_from, report, fpc,
    \* append_citation_if_available applied to one item, then to its own output
    c_item, once, line, twice, apc,
    \* collect_market_news
    next_src, attempts, all_items, errors, kpc

fmt_vars == <<items, content_key, isolate_unknown_sources, idx,
              cited_lines, unknown_lines, cited_from, unknown_from, report, fpc>>
cite_vars == <<c_item, once, line, twice, apc>>
col_vars == <<next_src, attempts, all_items, errors, kpc>>
vars == <<fmt_vars, cite_vars, col_vars>>

----------------------------------------------------------------------------
(* Bounds of the model *)

\* longest item list handed to format_report_sections
MaxItems == 2
\* most copies of a citation an input text already ends with
MaxCopies == 2
\* longest feed drawn from the full record set
MaxShortLen == 2
\* longest feed (reaches past MAX_ITEMS_PER_FEED)
MaxFeedLen == 6

----------------------------------------------------------------------------
(* Python str operations *)

WhiteSpace == {" ", "\t", "\n"}

RECURSIVE rstrip(_)
rstrip(s) ==
    IF s = <<>> THEN <<>>
    ELSE IF s[Len(s)] \in WhiteSpace THEN rstrip(SubSeq(s, 1, Len(s) - 1))
    ELSE s

RECURSIVE lstrip(_)
lstrip(s) ==
    IF s = <<>> THEN <<>>
    ELSE IF s[1] \in WhiteSpace THEN lstrip(Tail(s))
    ELSE s

strip(s) == rstrip(lstrip(s))

endswith(s, t) ==
    /\ Len(t) <= Len(s)
    /\ SubSeq(s, Len(s) - Len(t) + 1, Len(s)) = t

RECURSIVE join(_, _)
join(sep, parts) ==
    IF parts = <<>> THEN <<>>
    ELSE IF Len(parts) = 1 THEN parts[1]
    ELSE parts[1] \o sep \o join(sep, Tail(parts))

\* dictionary values
Absent == [k |-> "absent", s |-> <<>>]
None == [k |-> "none", s |-> <<>>]
Str(s) == [k |-> "str", s |-> s]

\* item.get(key, ""): the value under key, "" when the key is not in the dict
dict_get(item, key) ==
    IF key \in DOMAIN item /\ item[key].k # "absent" THEN item[key] ELSE Str(<<>>)

\* str(value): str(None) is the four characters of "None"
str(v) == IF v.k = "none" THEN <<"N", "o", "n", "e">> ELSE v.s

----------------------------------------------------------------------------
(* report_formatter.py *)

\* "[出所: " of CITATION_TEMPLATE = "[出所: {name}({url})]"
CITATION_PREFIX == <<"[", "U51FA", "U6240", ":", " ">>
\* "## 出所不明の情報"
UNKNOWN_SOURCE_SECTION_TITLE ==
    <<"#", "#", " ", "U51FA", "U6240", "U4E0D", "U660E", "U306E", "U60C5", "U5831">>
\* "（出所不明）"
UNKNOWN_SUFFIX == <<"UFF08", "U51FA", "U6240", "U4E0D", "U660E", "UFF09">>
BULLET == <<"-", " ">>

has_complete_source(item) ==
    LET source_name == strip(str(dict_get(item, "source_name")))
        source_url == strip(str(dict_get(item, "source_url")))
    IN source_name # <<>> /\ source_url # <<>>

\* source_name.strip() on a value that is no str raises AttributeError
format_citation_raises(source_name, source_url) ==
    source_name.k # "str" \/ source_url.k # "str"

format_citation(source_name, source_url) ==
    CITATION_PREFIX \o strip(source_name.s) \o <<"(">> \o strip(source_url.s)
        \o <<")", "]">>

\* the guard of line 34 dropped: the citation is appended every time
append_citation_always(text, item) ==
    LET t == rstrip(text) IN
    IF ~has_complete_source(item) THEN [raised |-> FALSE, value |-> t]
    ELSE IF format_citation_raises(item["source_name"], item["source_url"])
    THEN [raised |-> TRUE, value |-> <<>>]
    ELSE [raised |-> FALSE,
          value |-> t \o <<" ">>
                      \o format_citation(item["source_name"], item["source_url"])]

\* the result of a call: it raised, or it returned value
append_citation_if_available(text, item) ==
    LET t == rstrip(text) IN
    IF ~has_complete_source(item) THEN [raised |-> FALSE, value |-> t]
    ELSE IF format_citation_raises(item["source_name"], item["source_url"])
    THEN [raised |-> TRUE, value |-> <<>>]
    ELSE LET citation == format_citation(item["source_name"], item["source_url"])
         IN IF endswith(t, citation) THEN [raised |-> FALSE, value |-> t]
            ELSE [raised |-> FALSE, value |-> t \o <<" ">> \o citation]

\* line 55: content = str(item.get(content_key, "")).strip()
item_content(item, key) == strip(str(dict_get(item, key)))

\* line 73 with "\n" for "\n\n": no blank line between the sections
assemble_report_no_blank_line(cited, unknown, isolate) ==
    LET main == IF cited # <<>> THEN << join(<<"\n">>, cited) >> ELSE <<>>
        isolated == IF isolate /\ unknown # <<>>
                    THEN << UNKNOWN_SOURCE_SECTION_TITLE \o <<"\n">>
                              \o join(<<"\n">>, unknown) >>
                    ELSE <<>>
    IN join(<<"\n">>, main \o isolated)

\* lines 66-73: the sections, joined by a blank line
assemble_report(cited, unknown, isolate) ==
    LET main == IF cited # <<>> THEN << join(<<"\n">>, cited) >> ELSE <<>>
        isolated == IF isolate /\ unknown # <<>>
                    THEN << UNKNOWN_SOURCE_SECTION_TITLE \o <<"\n">>
                              \o join(<<"\n">>, unknown) >>
                    ELSE <<>>
    IN join(<<"\n", "\n">>, main \o isolated)

\* the values a content field takes
FmtTexts ==
    {Absent, Str(<<>>), Str(<<" ">>), Str(<<"a">>), Str(<<" ", "b", " ">>)}

\* the (source_name, source_url) pairs an item carries
FmtSources ==
    { <<Str(<<" ", "n">>), Str(<<"u", " ">>)>>,
      <<Absent, Absent>>,
      <<Str(<<"n">>), Absent>>,
      <<Str(<<" ">>), Str(<<"u">>)>>,
      <<None, Str(<<"u">>)>>,
      <<Str(<<"n">>), None>>,
      <<None, Absent>> }

FmtItems ==
    { [text |-> t, source_name |-> p[1], source_url |-> p[2]] :
        t \in FmtTexts, p \in FmtSources }

FmtInputs == UNION { [1..n -> FmtItems] : n \in 0..MaxItems }

CiteIdle ==
    /\ c_item = [text |-> Absent, source_name |-> Absent, source_url |-> Absent]
    /\ once = <<>> /\ line = <<>> /\ twice = <<>> /\ apc = "idle"

ColIdle ==
    /\ next_src = 0 /\ attempts = <<>> /\ all_items = <<>> /\ errors = <<>>
    /\ kpc = "idle"

FmtIdle ==
    /\ items = <<>> /\ content_key = "text" /\ isolate_unknown_sources = TRUE
    /\ idx = 0 /\ cited_lines = <<>> /\ unknown_lines = <<>>
    /\ cited_from = <<>> /\ unknown_from = <<>> /\ report = <<>> /\ fpc = "idle"

\* format_report_sections is called: lines 51-52
FmtInit ==
    /\ items \in FmtInputs
    /\ content_key \in {"text", "body"}
    /\ isolate_unknown_sources \in BOOLEAN
    /\ idx = 0
    /\ cited_lines = <<>> /\ unknown_lines = <<>>
    /\ cited_from = <<>> /\ unknown_from = <<>>
    /\ report = <<>>
    /\ fpc = "loop"
    /\ CiteIdle /\ ColIdle

\* the item of the running iteration
cur == items[idx + 1]
InLoop == fpc = "loop" /\ idx < Len(items)

\* lines 55-57: blank content, the item is skipped
FmtSkip ==
    /\ InLoop
    /\ item_content(cur, content_key) = <<>>
    /\ idx' = idx + 1
    /\ UNCHANGED <<items, content_key, isolate_unknown_sources, cited_lines,
                   unknown_lines, cited_from, unknown_from, report, fpc>>
    /\ UNCHANGED <<cite_vars, col_vars>>

\* lines 59-60: a complete source, the line carries the citation
FmtCited ==
    /\ InLoop
    /\ item_content(cur, content_key) # <<>>
    /\ has_complete_source(cur)
    /\ LET r == append_citation_if_available(item_content(cur, content_key), cur)
       IN /\ ~r.raised
          /\ cited_lines' = Append(cited_lines, BULLET \o r.value)
    /\ cited_from' = Append(cited_from, idx + 1)
    /\ idx' = idx + 1
    /\ UNCHANGED <<items, content_key, isolate_unknown_sources, unknown_lines,
                   unknown_from, report, fpc>>
    /\ UNCHANGED <<cite_vars, col_vars>>

\* line 60 -> 33 -> 23: AttributeError leaves format_report_sections
FmtRaise ==
    /\ InLoop
    /\ item_content(cur, content_key) # <<>>
    /\ has_complete_source(cur)
    /\ append_citation_if_available(item_content(cur, content_key), cur).raised
    /\ fpc' = "raised"
    /\ UNCHANGED <<items, content_key, isolate_unknown_sources, idx, cited_lines,
                   unknown_lines, cited_from, unknown_from, report>>
    /\ UNCHANGED <<cite_vars, col_vars>>

\* lines 61-62: incomplete source, isolated
FmtUnknown ==
    /\ InLoop
    /\ item_content(cur, content_key) # <<>>
    /\ ~has_complete_source(cur)
    /\ isolate_unknown_sources
    /\ unknown_lines' =
         Append(unknown_lines,
                BULLET \o item_content(cur, content_key) \o UNKNOWN_SUFFIX)
    /\ unknown_from' = Append(unknown_from, idx + 1)
    /\ idx' = idx + 1
    /\ UNCHANGED <<items, content_key, isolate_unknown_sources, cited_lines,
                   cited_from, report, fpc>>
    /\ UNCHANGED <<cite_vars, col_vars>>

\* lines 63-64: incomplete source, not isolated
FmtPlain ==
    /\ InLoop
    /\ item_content(cur, content_key) # <<>>
    /\ ~has_complete_source(cur)
    /\ ~isolate_unknown_sources
    /\ cited_lines' = Append(cited_lines, BULLET \o item_content(cur, content_key))
    /\ cited_from' = Append(cited_from, idx + 1)
    /\ idx' = idx + 1
    /\ UNCHANGED <<items, content_key, isolate_unknown_sources, unknown_lines,
                   unknown_from, report, fpc>>
    /\ UNCHANGED <<cite_vars, col_vars>>

\* lines 66-73: the loop is over, the report is returned
FmtAssemble ==
    /\ fpc = "loop"
    /\ idx = Len(items)
    /\ report' = assemble_report(cited_lines, unknown_lines, isolate_unknown_sources)
    /\ fpc' = "done"
    /\ UNCHANGED <<items, content_key, isolate_unknown_sources, idx, cited_lines,
                   unknown_lines, cited_from, unknown_from>>
    /\ UNCHANGED <<cite_vars, col_vars>>

FmtNext ==
    \/ FmtSkip
    \/ FmtCited
    \/ FmtRaise
    \/ FmtUnknown
    \/ FmtPlain
    \/ FmtAssemble

FmtSpec == FmtInit /\ [][FmtNext]_vars

----------------------------------------------------------------------------
(* append_citation_if_available on one item, and on its own output *)

RECURSIVE repeat(_, _, _)
\* k copies of c, sep between them
repeat(c, k, sep) == IF k <= 1 THEN c ELSE c \o sep \o repeat(c, k - 1, sep)

\* citations a content may already end with
CiteTails ==
    LET cits == { format_citation(Str(<<"n">>), Str(<<"u">>)),
                  format_citation(Str(<<"m">>), Str(<<"u">>)) }
    IN {<<>>} \cup { repeat(c, k, sep) :
                       c \in cits, k \in 1..MaxCopies, sep \in {<<>>, <<" ">>} }

CiteTexts ==
    {Absent}
      \cup { Str(base \o tail \o trail) :
               base \in {<<>>, <<"a">>, <<"a", " ">>},
               tail \in CiteTails,
               trail \in {<<>>, <<" ">>} }

CiteItems ==
    { [text |-> t, source_name |-> n, source_url |-> u] :
        t \in CiteTexts,
        n \in {Str(<<" ", "n">>), Str(<<"n">>), Str(<<" ">>), None},
        u \in {Str(<<"u", " ">>), Absent, None} }

CiteInit ==
    /\ c_item \in CiteItems
    /\ once = <<>> /\ line = <<>> /\ twice = <<>>
    /\ apc = "start"
    /\ FmtIdle /\ ColIdle

\* lines 55-60 on c_item: the content, cited, and the bullet line of it
CiteApply ==
    /\ apc = "start"
    /\ item_content(c_item, "text") # <<>>
    /\ LET r == append_citation_if_available(item_content(c_item, "text"), c_item)
       IN /\ ~r.raised
          /\ once' = r.value
          /\ line' = BULLET \o r.value
    /\ apc' = "once"
    /\ UNCHANGED <<c_item, twice>>
    /\ UNCHANGED <<fmt_vars, col_vars>>

\* line 33 -> 23: AttributeError
CiteRaise ==
    /\ apc = "start"
    /\ item_content(c_item, "text") # <<>>
    /\ append_citation_if_available(item_content(c_item, "text"), c_item).raised
    /\ apc' = "raised"
    /\ UNCHANGED <<c_item, once, line, twice>>
    /\ UNCHANGED <<fmt_vars, col_vars>>

\* append_citation_if_available on its own output, with the same item
CiteReapply ==
    /\ apc = "once"
    /\ LET r == append_citation_if_available(once, c_item)
       IN /\ ~r.raised
          /\ twice' = r.value
    /\ apc' = "twice"
    /\ UNCHANGED <<c_item, once, line>>
    /\ UNCHANGED <<fmt_vars, col_vars>>

CiteNext ==
    \/ CiteApply
    \/ CiteRaise
    \/ CiteReapply

CiteSpec == CiteInit /\ [][CiteNext]_vars

----------------------------------------------------------------------------
(* Properties of the formatter *)

\* a source field that is absent, None, empty or whitespace-only
FieldMissing(v) == v.k # "str" \/ strip(v.s) = <<>>
SourceMissing(item) ==
    FieldMissing(item["source_name"]) \/ FieldMissing(item["source_url"])
NonBlank(item) == item_content(item, content_key) # <<>>

\* "[出所: {name}({url})]" of the trimmed name and url of a fully attributed item
CitationOf(item) ==
    <<"[", "U51FA", "U6240", ":", " ">> \o strip(item["source_name"].s)
        \o <<"(">> \o strip(item["source_url"].s) \o <<")", "]">>

RECURSIVE Copies(_, _)
\* how many copies of c the text s ends with
Copies(s, c) ==
    IF endswith(s, c)
    THEN 1 + Copies(rstrip(SubSeq(s, 1, Len(s) - Len(c))), c)
    ELSE 0

Increasing(f) == \A i, j \in DOMAIN f : i < j => f[i] < f[j]
FmtFinished == fpc \in {"done", "raised"}
CiteDone == apc \in {"once", "twice"} /\ ~SourceMissing(c_item)

\* C2 as stated: for a fully attributed item the line ends with the citation,
\* the citation stands at the end exactly once, and applying
\* append_citation_if_available to its own output changes nothing.
C2_CitationExactlyOnce ==
    CiteDone =>
        /\ endswith(line, CitationOf(c_item))
        /\ Copies(once, CitationOf(c_item)) = 1
        /\ apc = "twice" => twice = once

\* C2 amended: the line ends with the citation; a content that ends with no
\* copy of the citation gets exactly one, a content that already ends with
\* copies of it keeps exactly those (none is added); and applying
\* append_citation_if_available to its own output changes nothing.
C2_CitationNotDuplicated ==
    CiteDone =>
        LET c == CitationOf(c_item)
            had == Copies(item_content(c_item, "text"), c)
        IN /\ endswith(line, c)
           /\ Copies(once, c) = IF had = 0 THEN 1 ELSE had
           /\ apc = "twice" => twice = once

\* the content already ended with the citation and was formatted twice
C2_Witness ==
    /\ apc = "twice"
    /\ ~SourceMissing(c_item)
    /\ Copies(item_content(c_item, "text"), CitationOf(c_item)) = 1
    /\ c_item["source_name"].s # strip(c_item["source_name"].s)

\* the lines a bucket holds for item i
LinesOf(from, i) == { k \in DOMAIN from : from[k] = i }
\* the heading and the unknown lines, as the report shows them
UnknownSection ==
    UNKNOWN_SOURCE_SECTION_TITLE \o <<"\n">> \o join(<<"\n">>, unknown_lines)

\* C1 as stated: with isolation on, every item with non-blank content whose
\* source_name or source_url is missing or blank yields exactly one line, in
\* the unknown-source section, "- " + content + the unknown suffix, and no
\* line of the main section.
C1_IncompleteItemIsolated ==
    (FmtFinished /\ isolate_unknown_sources) =>
        \A i \in DOMAIN items :
            (NonBlank(items[i]) /\ SourceMissing(items[i])) =>
                /\ Cardinality(LinesOf(unknown_from, i)) = 1
                /\ \A k \in LinesOf(unknown_from, i) :
                     unknown_lines[k] =
                       BULLET \o item_content(items[i], content_key) \o UNKNOWN_SUFFIX
                /\ LinesOf(cited_from, i) = {}
                /\ fpc = "done" => endswith(report, UnknownSection)

\* C6 as stated: an item with absent, empty or whitespace-only content yields
\* no line, every other item yields exactly one line in exactly one bucket,
\* and each bucket keeps the input order.
C6_OneLinePerNonBlankItem ==
    FmtFinished =>
        /\ \A i \in DOMAIN items :
             Cardinality(LinesOf(cited_from, i)) + Cardinality(LinesOf(unknown_from, i))
               = IF NonBlank(items[i]) THEN 1 ELSE 0
        /\ Increasing(cited_from)
        /\ Increasing(unknown_from)

\* C7: the returned report is the cited section if the cited bucket is not
\* empty, then the heading with the unknown lines if isolation is on and the
\* unknown bucket is not empty, with one blank line between two sections; it
\* is empty exactly when both buckets are empty.
C7_ReportSections ==
    fpc = "done" =>
        LET c == cited_lines # <<>>
            u == isolate_unknown_sources /\ unknown_lines # <<>>
            main == join(<<"\n">>, cited_lines)
        IN /\ (c /\ u) => report = main \o <<"\n", "\n">> \o UnknownSection
           /\ (c /\ ~u) => report = main
           /\ (~c /\ u) => report = UnknownSection
           /\ (report = <<>>) <=> (cited_lines = <<>> /\ unknown_lines = <<>>)

\* a report of two sections has been returned
C7_Witness ==
    /\ fpc = "done"
    /\ Len(cited_lines) = 1 /\ Len(unknown_lines) = 1
    /\ report # <<>>

\* C8 as stated: with isolation off the report is one section with one line
\* per non-blank item in input order, the line of an incomplete item is
\* "- " + content, and the heading is never emitted.
C8_NoIsolationSingleSection ==
    (FmtFinished /\ ~isolate_unknown_sources) =>
        /\ \A i \in DOMAIN items :
             Cardinality(LinesOf(cited_from, i)) = IF NonBlank(items[i]) THEN 1 ELSE 0
        /\ Increasing(cited_from)
        /\ \A k \in DOMAIN cited_from :
             SourceMissing(items[cited_from[k]]) =>
               cited_lines[k] = BULLET \o item_content(items[cited_from[k]], content_key)
        /\ unknown_lines = <<>>
        /\ fpc = "done" => report = join(<<"\n">>, cited_lines)

\* C9 as stated: an item whose source_name or source_url is absent, None,
\* empty or whitespace-only is classified incomplete, is handled by the
\* isolation policy, and never makes format_report_sections raise.
C9_MissingSourceNeverRaises ==
    \A i \in DOMAIN items :
        (NonBlank(items[i]) /\ SourceMissing(items[i])) =>
            /\ ~(fpc = "raised" /\ idx + 1 = i)
            /\ i <= idx =>
                 IF isolate_unknown_sources
                 THEN LinesOf(unknown_from, i) # {} /\ LinesOf(cited_from, i) = {}
                 ELSE \E k \in LinesOf(cited_from, i) :
                        cited_lines[k] = BULLET \o item_content(items[i], content_key)

----------------------------------------------------------------------------
(* web_app.py: fetch_rss_items and collect_market_news *)

MAX_ITEMS_PER_FEED == 5

\* the labels of feed_targets, in listed order
feed_targets ==
    << <<"G", "o", "o", "g", "l", "e", " ", "N", "e", "w", "s">>,
       <<"R", "e", "u", "t", "e", "r", "s", " ", "B", "u", "s", "i", "n", "e", "s", "s">> >>

\* " の取得に失敗しました: " followed by the exception's text
FETCH_FAILED ==
    <<" ", "U306E", "U53D6", "U5F97", "U306B", "U5931", "U6557", "U3057", "U307E",
      "U3057", "U305F", ":", " ", "{exc}">>
\* " のRSS解析に失敗しました: " followed by the exception's text
PARSE_FAILED ==
    <<" ", "U306E", "R", "S", "S", "U89E3", "U6790", "U306B", "U5931", "U6557",
      "U3057", "U307E", "U3057", "U305F", ":", " ", "{exc}">>
\* "(タイトルなし)"
NO_TITLE == <<"(", "U30BF", "U30A4", "U30C8", "U30EB", "U306A", "U3057", ")">>

\* the code point of a character of a published token
ord(c) ==
    CASE c = " " -> 32 [] c = "-" -> 45 [] c = "0" -> 48 [] c = "1" -> 49
      [] c = "2" -> 50 [] c = "3" -> 51 [] c = "4" -> 52 [] c = "5" -> 53

RECURSIVE str_lt(_, _)
\* a < b on Python str: by code point, a proper prefix is smaller
str_lt(a, b) ==
    IF b = <<>> THEN FALSE
    ELSE IF a = <<>> THEN TRUE
    ELSE IF a[1] = b[1] THEN str_lt(Tail(a), Tail(b))
    ELSE ord(a[1]) < ord(b[1])

\* (findtext(tag) or default): None and "" give the default
or_default(v, default) == IF v.k = "str" /\ v.s # <<>> THEN v.s ELSE default

\* lines 57-67: one record of the feed as a NewsItem; src and pos record the
\* source and the place in its feed the item came from
news_item(node, source_label, src, pos) ==
    [source |-> source_label,
     title |-> strip(or_default(node.title, NO_TITLE)),
     link |-> strip(or_default(node.link, <<>>)),
     published |-> strip(or_default(node.pubDate, <<>>)),
     src |-> src, pos |-> pos]

Min(a, b) == IF a < b THEN a ELSE b

\* lines 55-68: the first `limit` records of a parsed feed
fetch_rss_items(feed, source_label, src) ==
    [p \in 1..Min(MAX_ITEMS_PER_FEED, Len(feed)) |->
        news_item(feed[p], source_label, src, p)]

\* x placed into a list that is in descending order, behind every item that is
\* not smaller: equal items keep the order they arrived in
insert_desc(sorted, x) ==
    LET n == Cardinality({ i \in DOMAIN sorted :
                             ~str_lt(sorted[i].published, x.published) })
    IN SubSeq(sorted, 1, n) \o <<x>> \o SubSeq(sorted, n + 1, Len(sorted))

\* x placed ahead of the items equal to it
insert_desc_ahead(sorted, x) ==
    LET n == Cardinality({ i \in DOMAIN sorted :
                             str_lt(x.published, sorted[i].published) })
    IN SubSeq(sorted, 1, n) \o <<x>> \o SubSeq(sorted, n + 1, Len(sorted))

\* x placed into a list in ascending order
insert_asc(sorted, x) ==
    LET n == Cardinality({ i \in DOMAIN sorted :
                             ~str_lt(x.published, sorted[i].published) })
    IN SubSeq(sorted, 1, n) \o <<x>> \o SubSeq(sorted, n + 1, Len(sorted))

RECURSIVE sort_asc(_)
\* sort(key=published) without reverse=True
sort_asc(s) ==
    IF s = <<>> THEN <<>>
    ELSE insert_asc(sort_asc(SubSeq(s, 1, Len(s) - 1)), s[Len(s)])

RECURSIVE sort_desc_reversing_ties(_)
\* an ascending sort reversed: descending, but equal items in reverse order
sort_desc_reversing_ties(s) ==
    IF s = <<>> THEN <<>>
    ELSE insert_desc_ahead(sort_desc_reversing_ties(SubSeq(s, 1, Len(s) - 1)),
                           s[Len(s)])

RECURSIVE sort_desc(_)
sort_desc(s) ==
    IF s = <<>> THEN <<>>
    ELSE insert_desc(sort_desc(SubSeq(s, 1, Len(s) - 1)), s[Len(s)])

\* line 87: all_items.sort(key=lambda item: item.published, reverse=True);
\* list.sort is stable, with reverse=True too
sort_by_published(s) == sort_desc(s)

D0102 == <<"2", "0", "2", "4", "-", "0", "1", "-", "0", "2">>
D0105 == <<"2", "0", "2", "4", "-", "0", "1", "-", "0", "5">>
D0101 == <<"2", "0", "2", "4", "-", "0", "1", "-", "0", "1">>

\* the records of the long feeds
LongRecords ==
    { [title |-> Str(<<"a">>), link |-> Str(<<"l">>), pubDate |-> Str(D0102)],
      [title |-> Str(<<"b">>), link |-> Str(<<"l">>), pubDate |-> Str(<<>>)] }

\* <item> nodes of a feed: a missing element is None, an empty one is ""
Records ==
    LongRecords \cup
    { [title |-> Str(<<"b">>), link |-> Str(<<" ", "l">>),
       pubDate |-> Str(<<" ">> \o D0105 \o <<" ">>)],
      [title |-> Str(<<"a">>), link |-> None, pubDate |-> Str(D0101)],
      [title |-> None, link |-> None, pubDate |-> None],
      [title |-> Str(<<"b">>), link |-> Str(<<"l">>), pubDate |-> Str(D0102)] }

Feeds ==
    UNION { [1..n -> Records] : n \in 0..MaxShortLen }
      \cup UNION { [1..n -> LongRecords] : n \in MAX_ITEMS_PER_FEED..MaxFeedLen }

ColInit ==
    /\ next_src = 1
    /\ attempts = <<>>
    /\ all_items = <<>>
    /\ errors = <<>>
    /\ kpc = "loop"
    /\ FmtIdle /\ CiteIdle

Fetching == kpc = "loop" /\ next_src <= Len(feed_targets)

\* lines 83, 43-68: the feed is read and parsed, its items are collected
ColFetchOk ==
    /\ Fetching
    /\ \E feed \in Feeds :
         /\ all_items' =
              all_items \o fetch_rss_items(feed, feed_targets[next_src], next_src)
         /\ attempts' = Append(attempts, [kind |-> "ok", feed |-> feed])
    /\ next_src' = next_src + 1
    /\ UNCHANGED <<errors, kpc>>
    /\ UNCHANGED <<fmt_vars, cite_vars>>

\* lines 45-48, 84-85: urlopen raises URLError (no connection, a timeout while
\* connecting, an HTTP error status)
ColUrlError ==
    /\ Fetching
    /\ errors' = Append(errors, feed_targets[next_src] \o FETCH_FAILED)
    /\ attempts' = Append(attempts, [kind |-> "url_error", feed |-> <<>>])
    /\ next_src' = next_src + 1
    /\ UNCHANGED <<all_items, kpc>>
    /\ UNCHANGED <<fmt_vars, cite_vars>>

\* lines 50-53, 84-85: the payload is no XML
ColParseError ==
    /\ Fetching
    /\ errors' = Append(errors, feed_targets[next_src] \o PARSE_FAILED)
    /\ attempts' = Append(attempts, [kind |-> "parse_error", feed |-> <<>>])
    /\ next_src' = next_src + 1
    /\ UNCHANGED <<all_items, kpc>>
    /\ UNCHANGED <<fmt_vars, cite_vars>>

\* lines 45-47: the socket times out while the response is read; TimeoutError
\* is no URLError, so neither line 47 nor line 84 catches it
ColReadTimeout ==
    /\ Fetching
    /\ attempts' = Append(attempts, [kind |-> "read_timeout", feed |-> <<>>])
    /\ kpc' = "raised"
    /\ UNCHANGED <<next_src, all_items, errors>>
    /\ UNCHANGED <<fmt_vars, cite_vars>>

\* lines 87-88: every source was tried
ColReturn ==
    /\ kpc = "loop"
    /\ next_src > Len(feed_targets)
    /\ all_items' = sort_by_published(all_items)
    /\ kpc' = "done"
    /\ UNCHANGED <<next_src, attempts, errors>>
    /\ UNCHANGED <<fmt_vars, cite_vars>>

ColNext ==
    \/ ColFetchOk
    \/ ColUrlError
    \/ ColParseError
    \/ ColReadTimeout
    \/ ColReturn

ColSpec == ColInit /\ [][ColNext]_vars

----------------------------------------------------------------------------
(* Properties of the collector *)

ColFinished == kpc \in {"done", "raised"}
\* what collect_market_news hands back: nothing when an exception left it
ReturnedItems == IF kpc = "done" THEN all_items ELSE <<>>
ReturnedErrors == IF kpc = "done" THEN errors ELSE <<>>

Succeeded == { s \in DOMAIN attempts : attempts[s].kind = "ok" }
Failed == { s \in DOMAIN attempts : attempts[s].kind # "ok" }
\* the records of the tried feeds that the per-source cap lets through
Kept ==
    { sp \in Succeeded \X (1..MAX_ITEMS_PER_FEED) : sp[2] <= Len(attempts[sp[1]].feed) }
ItemAt(sp) == news_item(attempts[sp[1]].feed[sp[2]], feed_targets[sp[1]], sp[1], sp[2])

contains(text, part) ==
    \E i \in 0..(Len(text) - Len(part)) : SubSeq(text, i + 1, i + Len(part)) = part

\* list is a rearrangement of exactly the kept records
HoldsExactlyKept(list) ==
    /\ Len(list) = Cardinality(Kept)
    /\ \A sp \in Kept : \E i \in DOMAIN list : list[i] = ItemAt(sp)
    /\ \A i \in DOMAIN list : list[i].source = feed_targets[list[i].src]

\* C3 as stated: whatever sources succeed or fail, the returned items are
\* exactly the first five records of every succeeding source, stamped with
\* its label, the returned errors hold one entry per failing source, naming
\* it, and a later failure loses no item of an earlier source.
C3_PartialFailureKeepsItems ==
    ColFinished =>
        /\ HoldsExactlyKept(ReturnedItems)
        /\ Len(ReturnedErrors) = Cardinality(Failed)
        /\ \A s \in Failed :
             \E e \in DOMAIN ReturnedErrors :
               contains(ReturnedErrors[e], feed_targets[s])

\* C4 as stated: every kind of failure of one source becomes an error string
\* for that source, the later sources are still tried, and no exception
\* leaves collect_market_news.
C4_NoFailureEscapes ==
    /\ kpc # "raised"
    /\ Len(errors) = Cardinality(Failed)
    /\ kpc = "done" => Len(attempts) = Len(feed_targets)

Descending(list) ==
    \A i \in 1..(Len(list) - 1) : ~str_lt(list[i].published, list[i + 1].published)

\* C5: the returned items are a rearrangement of the items retrieved from the
\* succeeding sources, in non-increasing order of the published token under
\* string comparison.
C5_SortedDescending ==
    kpc = "done" => (HoldsExactlyKept(all_items) /\ Descending(all_items))

\* items collected as 2024-01-02, 2024-01-05, 2024-01-01 are returned as
\* 2024-01-05, 2024-01-02, 2024-01-01
C5_Witness ==
    /\ kpc = "done"
    /\ Len(all_items) = 3
    /\ <<all_items[1].published, all_items[2].published, all_items[3].published>>
         = <<D0105, D0102, D0101>>
    /\ <<all_items[1].pos, all_items[2].pos, all_items[3].pos>> = <<2, 1, 1>>
    /\ <<all_items[1].src, all_items[2].src, all_items[3].src>> = <<1, 1, 2>>

\* collection order: the listed order of the sources, then the feed order
Earlier(x, y) == x.src < y.src \/ (x.src = y.src /\ x.pos < y.pos)

\* C10: returned items with equal published tokens keep their collection order.
C10_TiesKeepCollectionOrder ==
    kpc = "done" =>
        \A i, j \in DOMAIN all_items :
            (i < j /\ all_items[i].published = all_items[j].published) =>
                Earlier(all_items[i], all_items[j])

\* undated items of both sources were returned behind a dated item that was
\* collected after them
C10_Witness ==
    /\ kpc = "done"
    /\ \E i, j, k \in DOMAIN all_items :
         /\ k < i /\ i < j
         /\ all_items[i].published = <<>> /\ all_items[j].published = <<>>
         /\ all_items[i].src = 1 /\ all_items[j].src = 2
         /\ all_items[k].published # <<>>
         /\ Earlier(all_items[i], all_items[k])
    /\ \E i, j \in DOMAIN all_items :
         /\ i < j
         /\ all_items[i].published = all_items[j].published
         /\ all_items[i].src = all_items[j].src

====
